---- MODULE Spec2Model ----
(***************************************************************************)
(* A model of the two CASP download scripts:                               *)
(*   scripts/casp_ligand_fetch.py  (index lister, downloader, combiner,    *)
(*                                  sequence fetchers, CLI driver)         *)
(*   scripts/casp_target_fetch.py  (FASTA loop, tarball download, archive  *)
(*                                  extraction)                            *)
(* Text is a sequence of one-character strings.                            *)
(***************************************************************************)
EXTENDS Integers, Sequences, FiniteSets, TLC

VARIABLES
    ipc, page, hrefs,           \* http_index_list: position, page text, result
    npc, resp, fasta,           \* sequence normalizer: position, r.text, text written to dest
    xpc, xcount, fs, touched,   \* extraction loop: position, members seen, filesystem,
                                \* nodes tar.extract created or wrote
    cpc, centries, ctars, cnum, \* fetch_casp16_pharma_smiles: position, index entries,
                                \* tarballs left, members read so far,
    combined_header, combined_rows, out_tsv,
    cseen,                      \* the .tsv members read: <<tarname, member name, text>>
    script, flags,              \* which script runs, and the command line of main()
    pc, stage, item, ret,       \* position: statement, main()'s stage, loop index,
                                \* statement download() returns to
    disk,                       \* output files: "absent", "partial" or "complete"
    started, finished,          \* this run: stages called, stages returned
    handled, failed,            \* this run's current per-target loop: indices reached,
                                \* indices whose fetch failed
    reqs, err,                  \* this run: HTTP requests issued; the uncaught exception
    stale, refused, rerun,      \* files already partial when this run began; the file
                                \* the previous run's download() got a bad status for;
                                \* whether this is a later run
    tlog                        \* casp_target_fetch.py FASTA loop: <<index, data, saved>>

IndexVars == <<ipc, page, hrefs>>
NormVars == <<npc, resp, fasta>>
ExtractVars == <<xpc, xcount, fs, touched>>
CombineVars == <<cpc, centries, ctars, cnum, combined_header, combined_rows, out_tsv, cseen>>
vars == <<ipc, page, hrefs, npc, resp, fasta, xpc, xcount, fs, touched,
          cpc, centries, ctars, cnum, combined_header, combined_rows, out_tsv, cseen,
          script, flags, pc, stage, item, ret, disk, started, finished, handled, failed,
          reqs, err, stale, refused, rerun, tlog>>
RunVars == <<script, flags, pc, stage, item, ret, disk, started, finished, handled, failed,
             reqs, err, stale, refused, rerun, tlog>>

IndexIdle == ipc = "off" /\ page = <<>> /\ hrefs = <<>>
NormIdle == npc = "off" /\ resp = <<>> /\ fasta = <<>>
ExtractIdle == xpc = "off" /\ xcount = 0 /\ fs = <<>> /\ touched = {}
None == [set |-> FALSE, val |-> <<>>]
Some(v) == [set |-> TRUE, val |-> v]
CombineIdle ==
    /\ cpc = "off" /\ centries = <<>> /\ ctars = <<>> /\ cnum = 0
    /\ combined_header = None /\ combined_rows = <<>> /\ out_tsv = None /\ cseen = <<>>
RunIdle ==
    /\ script = "none" /\ flags = <<>> /\ pc = "off" /\ stage = 0 /\ item = 0 /\ ret = "off"
    /\ disk = <<>> /\ started = <<>> /\ finished = {} /\ handled = {} /\ failed = {}
    /\ reqs = {} /\ err = None /\ stale = {} /\ refused = {} /\ rerun = FALSE /\ tlog = <<>>

(***************************************************************************)
(* Text helpers                                                            *)
(***************************************************************************)
RECURSIVE Concat(_)
Concat(ss) == IF ss = <<>> THEN <<>> ELSE Head(ss) \o Concat(Tail(ss))

\* Code points of the characters the model uses (Python compares str by code point).
Ord(c) ==
    CASE c = "\n" -> 10 [] c = "\r" -> 13 [] c = "\t" -> 9 [] c = " " -> 32
      [] c = "\"" -> 34 [] c = "#" -> 35 [] c = "." -> 46 [] c = "/" -> 47
      [] c = "=" -> 61 [] c = ">" -> 62 [] c = "?" -> 63 [] c = "A" -> 65
      [] c = "C" -> 67 [] c = "a" -> 97 [] c = "b" -> 98 [] c = "e" -> 101
      [] c = "f" -> 102 [] c = "h" -> 104 [] c = "r" -> 114 [] c = "|" -> 124
      [] OTHER -> 0

\* s < t for Python str
RECURSIVE StrLess(_, _)
StrLess(s, t) ==
    IF t = <<>> THEN FALSE
    ELSE IF s = <<>> THEN TRUE
    ELSE IF Head(s) # Head(t) THEN Ord(Head(s)) < Ord(Head(t))
    ELSE StrLess(Tail(s), Tail(t))

StartsWith(s, p) == Len(s) >= Len(p) /\ SubSeq(s, 1, Len(p)) = p

SeqToSet(s) == {s[i] : i \in 1..Len(s)}

\* sorted(set(...)) of a collection of strings
RECURSIVE SortedOf(_)
SortedOf(S) ==
    IF S = {} THEN <<>>
    ELSE LET m == CHOOSE x \in S : \A y \in S \ {x} : StrLess(x, y)
         IN <<m>> \o SortedOf(S \ {m})

(***************************************************************************)
(* http_index_list (casp_ligand_fetch.py)                                  *)
(***************************************************************************)
MaxPieces == 3

HrefOpen == <<"h", "r", "e", "f", "=", "\"">>
ParentLink == <<".", ".", "/">>
SelfLink == <<".", "/">>

\* Link targets of the anchors of a listing page ("" is an empty href)
Targets == {ParentLink, SelfLink, <<"?">>, <<"#">>, <<"a">>, <<"b">>, <<>>}

\* Fragments a listing page is assembled from: whole anchors and loose markup
Pieces == {HrefOpen \o t \o <<"\"">> : t \in Targets} \cup {HrefOpen, <<"\"">>, <<"a">>}

RECURSIVE PieceSeqs(_)
PieceSeqs(n) ==
    IF n = 0 THEN {<<>>}
    ELSE LET prev == PieceSeqs(n - 1)
         IN prev \cup {Append(ps, p) : ps \in {q \in prev : Len(q) = n - 1}, p \in Pieces}

Pages == {Concat(ps) : ps \in PieceSeqs(MaxPieces)}

\* index of the first '"' at or after position i, 0 if none
RECURSIVE NextQuote(_, _)
NextQuote(text, i) ==
    IF i > Len(text) THEN 0
    ELSE IF text[i] = "\"" THEN i
    ELSE NextQuote(text, i + 1)

\* re.findall(r'href="([^"]+)"', text), scanning from position i
RECURSIVE FindAllHrefs(_, _)
FindAllHrefs(text, i) ==
    IF i + Len(HrefOpen) > Len(text) THEN <<>>
    ELSE IF SubSeq(text, i, i + Len(HrefOpen) - 1) = HrefOpen
         THEN LET b == i + Len(HrefOpen)
                  q == NextQuote(text, b)
              IN IF q > b
                 THEN <<SubSeq(text, b, q - 1)>> \o FindAllHrefs(text, q + 1)
                 ELSE FindAllHrefs(text, i + 1)
         ELSE FindAllHrefs(text, i + 1)

KeepHrefNoParent(h) == ~StartsWith(h, <<"?">>) /\ ~StartsWith(h, <<"#">>)

\* the filter of line 27
KeepHref(h) ==
    ~StartsWith(h, <<"?">>) /\ h \notin {ParentLink, SelfLink} /\ ~StartsWith(h, <<"#">>)

http_index_list(text) == SortedOf(SeqToSet(SelectSeq(FindAllHrefs(text, 1), KeepHref)))

IndexInit == ipc = "call" /\ page \in Pages /\ hrefs = <<>> /\ NormIdle /\ ExtractIdle /\ CombineIdle /\ RunIdle

\* r.raise_for_status() passes and the list is returned
IndexReturn ==
    /\ ipc = "call"
    /\ hrefs' = http_index_list(page)
    /\ ipc' = "returned"
    /\ UNCHANGED <<page, NormVars, ExtractVars, CombineVars, RunVars>>

\* S.get or r.raise_for_status() raises: no result
IndexRaise ==
    /\ ipc = "call"
    /\ ipc' = "raised"
    /\ UNCHANGED <<page, hrefs, NormVars, ExtractVars, CombineVars, RunVars>>

IndexNext == IndexReturn \/ IndexRaise

SpecIndex == IndexInit /\ [][IndexNext]_vars

\* C4: the list http_index_list returns has no duplicate entries, is in sorted
\* order, has no entry equal to "../" or "./", and no entry starting with "?" or "#".
C4_IndexListClean ==
    ipc = "returned" =>
        /\ \A i, j \in 1..Len(hrefs) : i < j => StrLess(hrefs[i], hrefs[j])
        /\ \A i \in 1..Len(hrefs) :
              /\ hrefs[i] # ParentLink /\ hrefs[i] # SelfLink
              /\ Head(hrefs[i]) # "?" /\ Head(hrefs[i]) # "#"

\* a list returned from a page that linked the parent directory and repeated an entry
C4_Witness ==
    /\ ipc = "returned"
    /\ LET raw == FindAllHrefs(page, 1)
       IN /\ \E i \in 1..Len(raw) : raw[i] \in {ParentLink, SelfLink, <<"?">>, <<"#">>}
          /\ \E i, j \in 1..Len(raw) : i < j /\ raw[i] = raw[j] /\ KeepHref(raw[i])
          /\ Len(hrefs) >= 1

\* a list of two entries returned from a page that named them in descending order
C4_WitnessOrder ==
    /\ ipc = "returned"
    /\ Len(hrefs) = 2
    /\ FindAllHrefs(page, 1) = <<hrefs[2], hrefs[1]>>

(***************************************************************************)
(* The sequence normalizer of fetch_casp16_sequences and                   *)
(* fetch_casp15_ligand_fastas (casp_ligand_fetch.py)                       *)
(***************************************************************************)
MaxResp == 5

RespChars == {">", "A", "|", " ", "\n", "\r"}

RECURSIVE Texts(_)
Texts(n) ==
    IF n = 0 THEN {<<>>}
    ELSE LET prev == Texts(n - 1)
         IN prev \cup {Append(t, c) : t \in {q \in prev : Len(q) = n - 1}, c \in RespChars}

\* what str.strip() and \s treat as whitespace, among the characters of the model
IsSpace(c) == c \in {" ", "\t", "\n", "\r"}

RECURSIVE LStrip(_)
LStrip(t) == IF t # <<>> /\ IsSpace(Head(t)) THEN LStrip(Tail(t)) ELSE t

RECURSIVE RStrip(_)
RStrip(t) ==
    IF t # <<>> /\ IsSpace(t[Len(t)]) THEN RStrip(SubSeq(t, 1, Len(t) - 1)) ELSE t

\* str.strip()
Strip(t) == RStrip(LStrip(t))

Contains(t, c) == \E i \in 1..Len(t) : t[i] = c

\* index of the first occurrence of c in t, 0 if none
RECURSIVE IndexOf(_, _, _)
IndexOf(t, c, i) ==
    IF i > Len(t) THEN 0 ELSE IF t[i] = c THEN i ELSE IndexOf(t, c, i + 1)

NotSpace(c) == ~IsSpace(c)

RemoveBlanksOnly(t) == SelectSeq(t, LAMBDA c : c # " ")

\* re.sub(r"\s+", "", seq)
RemoveSpace(t) == SelectSeq(t, NotSpace)

\* lines 102-107: the text handed to dest.write_text
Normalize(raw) ==
    LET text == Strip(raw)
    IN IF ~Contains(text, "\n") /\ Contains(text, "|")
       THEN LET p == IndexOf(text, "|", 1)
                hdr == SubSeq(text, 1, p - 1)
                seq == SubSeq(text, p + 1, Len(text))
            IN Strip(hdr) \o <<"\n">> \o RemoveSpace(seq) \o <<"\n">>
       ELSE text \o <<"\n">>

NormInit == npc = "fetched" /\ resp \in Texts(MaxResp) /\ fasta = <<>> /\ IndexIdle /\ ExtractIdle /\ CombineIdle /\ RunIdle

\* r.raise_for_status() passes: normalize and write
NormWrite ==
    /\ npc = "fetched"
    /\ fasta' = Normalize(resp)
    /\ npc' = "written"
    /\ UNCHANGED <<resp, IndexVars, ExtractVars, CombineVars, RunVars>>

\* r.raise_for_status() raises: nothing is written
NormRaise ==
    /\ npc = "fetched"
    /\ npc' = "raised"
    /\ UNCHANGED <<resp, fasta, IndexVars, ExtractVars, CombineVars, RunVars>>

NormNext == NormWrite \/ NormRaise

SpecNorm == NormInit /\ [][NormNext]_vars

CountOf(t, c) == Cardinality({i \in 1..Len(t) : t[i] = c})

\* C6: a response whose stripped text has no line break (LF) and has a pipe is
\* written as exactly two lines, the text before the first pipe with surrounding
\* whitespace removed and the text after it with all whitespace removed, then one
\* trailing line break; any other response is written stripped, plus the
\* trailing line break.
C6_NormalizerTwoLines ==
    npc = "written" =>
        LET t == Strip(resp)
        IN IF (\A i \in 1..Len(t) : t[i] # "\n") /\ (\E i \in 1..Len(t) : t[i] = "|")
           THEN \E p \in 1..Len(t), k \in 1..Len(fasta) :
                   /\ t[p] = "|" /\ \A i \in 1..(p - 1) : t[i] # "|"
                   /\ fasta[k] = "\n" /\ fasta[Len(fasta)] = "\n"
                   /\ CountOf(fasta, "\n") = 2
                   /\ SubSeq(fasta, 1, k - 1) = Strip(SubSeq(t, 1, p - 1))
                   /\ LET line2 == SubSeq(fasta, k + 1, Len(fasta) - 1)
                          after == SubSeq(t, p + 1, Len(t))
                      IN /\ \A i \in 1..Len(line2) : ~IsSpace(line2[i])
                         /\ line2 = SelectSeq(after, LAMBDA c : c \notin {" ", "\t", "\n", "\r"})
           ELSE fasta = t \o <<"\n">>

\* a single-line response with a pipe, whitespace around the header and inside the
\* sequence, has been rewritten
C6_Witness ==
    /\ npc = "written"
    /\ LET t == Strip(resp)
           p == IndexOf(t, "|", 1)
       IN /\ p > 1 /\ ~Contains(t, "\n")
          /\ IsSpace(t[p - 1])
          /\ \E i \in (p + 1)..Len(t) : IsSpace(t[i])
          /\ fasta # t \o <<"\n">>

(***************************************************************************)
(* The extraction loop of casp_target_fetch.py (lines 67-80).              *)
(* A path is the sequence of its components from the filesystem root.      *)
(* tar.extract is called without a filter argument: the model is the       *)
(* extraction tarfile performs by default up to Python 3.13.               *)
(***************************************************************************)
MaxMembers == 3
MaxNameLen == 2
MaxLinkHops == 2

Cwd == <<"home">>
OutDir == Cwd \o <<"casp15_original_inputs">>
\* os.path.abspath(lig_dir)
LigDir == OutDir \o <<"ligands_tarball">>

NameComps == {"..", "sub", "d.txt", "e.txt"}

\* m.name.lower().endswith(ext) for ext in (".smi", ".sdf", ".txt", ".tsv", ".csv"),
\* decided by the last component of the name
HasAllowedSuffix(comps) == comps # <<>> /\ comps[Len(comps)] \in {"d.txt", "e.txt"}

RECURSIVE CompSeqs(_)
CompSeqs(n) ==
    IF n = 0 THEN {<<>>}
    ELSE LET prev == CompSeqs(n - 1)
         IN prev \cup {Append(q, c) : q \in {r \in prev : Len(r) = n - 1}, c \in NameComps}

\* a member name or a link name: absolute or relative
PathNames == [abs : BOOLEAN, comps : CompSeqs(MaxNameLen) \ {<<>>}]

LinkNames ==
    {[abs |-> TRUE, comps |-> Cwd], [abs |-> FALSE, comps |-> <<"..", "..">>],
     [abs |-> FALSE, comps |-> <<"e.txt">>]}

\* the members an archive may hold: regular files, directories, symbolic links
Members ==
    [type : {"file", "dir"}, name : PathNames, linkname : {[abs |-> FALSE, comps |-> <<>>]}]
    \cup [type : {"sym"}, name : PathNames, linkname : LinkNames]

Parent(p) == IF p = <<>> THEN <<>> ELSE SubSeq(p, 1, Len(p) - 1)

IsPrefix(a, b) == Len(a) <= Len(b) /\ SubSeq(b, 1, Len(a)) = a

\* os.path.normpath of the absolute path base/comps: ".." is folded lexically
RECURSIVE NormPath(_, _)
NormPath(base, comps) ==
    IF comps = <<>> THEN base
    ELSE IF Head(comps) = ".." THEN NormPath(Parent(base), Tail(comps))
    ELSE NormPath(Append(base, Head(comps)), Tail(comps))

\* os.path.abspath(os.path.join(lig_dir, m.name))
AbsOutPath(name) ==
    IF name.abs THEN NormPath(<<>>, name.comps) ELSE NormPath(LigDir, name.comps)

\* lines 70-73: commonpath([d]) == commonpath([d, t]), on absolute normalised paths
is_within_directory(directory, target) == IsPrefix(directory, target)

Kind(f, p) == IF p \in DOMAIN f THEN f[p].kind ELSE "none"

DirNode == [kind |-> "dir"]
FileNode == [kind |-> "file"]
LinkNode(l) == [kind |-> "link", abs |-> l.abs, comps |-> l.comps]

Failed == [err |-> TRUE, at |-> <<>>]
Found(p) == [err |-> FALSE, at |-> p]

\* The kernel's resolution of comps from directory cur, following every symbolic
\* link, the last component's too; the last component may not exist yet.
RECURSIVE Real(_, _, _, _)
Real(f, cur, comps, fuel) ==
    IF comps = <<>> THEN Found(cur)
    ELSE LET c == Head(comps)
             rest == Tail(comps)
             nxt == Append(cur, c)
             k == Kind(f, nxt)
         IN IF c = ".." THEN Real(f, Parent(cur), rest, fuel)
            ELSE IF k = "dir" THEN Real(f, nxt, rest, fuel)
            ELSE IF k = "link"
                 THEN IF fuel = 0 THEN Failed
                      ELSE Real(f, IF f[nxt].abs THEN <<>> ELSE cur,
                                f[nxt].comps \o rest, fuel - 1)
            ELSE IF rest = <<>> THEN Found(nxt) ELSE Failed

\* os.path.exists(base/comps)
Exists(f, base, comps) ==
    LET r == Real(f, base, comps, MaxLinkHops) IN ~r.err /\ Kind(f, r.at) # "none"

\* os.makedirs(base/comps): [err, fs], fs with the directories made so far
RECURSIVE MakeDirs(_, _, _)
MakeDirs(f, base, comps) ==
    IF comps = <<>> THEN [err |-> TRUE, fs |-> f, made |-> {}]
    ELSE LET head == Parent(comps)
             tail == comps[Len(comps)]
             up == IF head # <<>> /\ ~Exists(f, base, head)
                   THEN MakeDirs(f, base, head)
                   ELSE [err |-> FALSE, fs |-> f, made |-> {}]
             pr == Real(up.fs, base, head, MaxLinkHops)
             tgt == Append(pr.at, tail)
         IN IF pr.err \/ Kind(up.fs, pr.at) # "dir" \/ tail = ".."
               \/ Kind(up.fs, tgt) # "none"
            THEN [err |-> TRUE, fs |-> up.fs, made |-> up.made]
            ELSE [err |-> FALSE, fs |-> (tgt :> DirNode) @@ up.fs,
                  made |-> up.made \cup {[path |-> tgt, kind |-> "dir"]}]

Raised(f, t) == [err |-> TRUE, fs |-> f, touched |-> t]
Extracted(f, t) == [err |-> FALSE, fs |-> f, touched |-> t]

\* tar.extract(m, path=lig_dir) -> TarFile._extract_member: the upper directories are
\* made, then the member is created at targetpath; an OSError is raised to the
\* caller (errorlevel 1).  [err, fs, touched]
TarExtract(f, m) ==
    LET base == IF m.name.abs THEN <<>> ELSE LigDir
        upper == Parent(m.name.comps)
        last == m.name.comps[Len(m.name.comps)]
        md == IF upper # <<>> /\ ~Exists(f, base, upper)
              THEN MakeDirs(f, base, upper)
              ELSE [err |-> FALSE, fs |-> f, made |-> {}]
        f2 == md.fs
        par == Real(f2, base, upper, MaxLinkHops)
        node == Append(par.at, last)
    IN IF md.err \/ par.err \/ Kind(f2, par.at) # "dir" \/ last = ".."
       THEN Raised(f2, md.made)
       ELSE CASE m.type = "file" ->
                   \* makefile: open(targetpath, "wb") follows a link at targetpath
                   LET r == Real(f2, par.at, <<last>>, MaxLinkHops)
                   IN IF r.err \/ Kind(f2, r.at) = "dir"
                      THEN Raised(f2, md.made)
                      ELSE Extracted((r.at :> FileNode) @@ f2,
                                     md.made \cup {[path |-> r.at, kind |-> "file"]})
              [] m.type = "dir" ->
                   \* makedir: os.mkdir, FileExistsError passed over
                   IF Kind(f2, node) = "none"
                   THEN Extracted((node :> DirNode) @@ f2,
                                  md.made \cup {[path |-> node, kind |-> "dir"]})
                   ELSE Extracted(f2, md.made)
              [] m.type = "sym" ->
                   \* makelink: os.unlink of what is there, then os.symlink
                   IF Kind(f2, node) = "dir"
                   THEN Raised(f2, md.made)
                   ELSE Extracted((node :> LinkNode(m.linkname)) @@ f2,
                                  md.made \cup {[path |-> node, kind |-> "link"]})

Tarball == Append(LigDir, "casp15.targets.ligands.tar.gz")

\* the filesystem when line 67 is reached: lig_dir exists and holds the saved tarball;
\* a file of the user's lies in the working directory
InitFs ==
    LET dirs == {<<>>, Cwd, OutDir, LigDir}
        files == {Tarball, Append(Cwd, "e.txt")}
    IN [p \in dirs \cup files |-> IF p \in dirs THEN DirNode ELSE FileNode]

ExtractInit ==
    /\ xpc = "loop" /\ xcount = 0 /\ fs = InitFs /\ touched = {}
    /\ IndexIdle /\ NormIdle /\ CombineIdle /\ RunIdle

\* line 76: the member's name ends in none of the suffixes
ExtractIgnore(m) ==
    /\ xpc = "loop" /\ xcount < MaxMembers
    /\ ~HasAllowedSuffix(m.name.comps)
    /\ xcount' = xcount + 1
    /\ UNCHANGED <<xpc, fs, touched, IndexVars, NormVars, CombineVars, RunVars>>

\* lines 77-79: the containment check fails, continue
ExtractSkip(m) ==
    /\ xpc = "loop" /\ xcount < MaxMembers
    /\ HasAllowedSuffix(m.name.comps)
    /\ ~is_within_directory(LigDir, AbsOutPath(m.name))
    /\ xcount' = xcount + 1
    /\ UNCHANGED <<xpc, fs, touched, IndexVars, NormVars, CombineVars, RunVars>>

\* line 80: tar.extract(m, path=lig_dir)
ExtractMember(m) ==
    /\ xpc = "loop" /\ xcount < MaxMembers
    /\ HasAllowedSuffix(m.name.comps)
    /\ is_within_directory(LigDir, AbsOutPath(m.name))
    /\ LET r == TarExtract(fs, m)
       IN /\ fs' = r.fs
          /\ touched' = touched \cup r.touched
          /\ xpc' = IF r.err THEN "raised" ELSE "loop"
    /\ xcount' = xcount + 1
    /\ UNCHANGED <<IndexVars, NormVars, CombineVars, RunVars>>

\* the archive has no further member: line 81
ExtractDone ==
    /\ xpc = "loop"
    /\ xpc' = "done"
    /\ UNCHANGED <<xcount, fs, touched, IndexVars, NormVars, CombineVars, RunVars>>

ExtractNext ==
    \/ \E m \in Members : ExtractIgnore(m) \/ ExtractSkip(m) \/ ExtractMember(m)
    \/ ExtractDone

SpecExtract == ExtractInit /\ [][ExtractNext]_vars

\* C3: whatever members the archive holds, no file is created or written at a path
\* outside the extraction root lig_dir.
C3_NoWriteOutsideRoot ==
    \A t \in touched : t.kind = "file" => IsPrefix(LigDir, t.path)

(***************************************************************************)
(* fetch_casp16_pharma_smiles (casp_ligand_fetch.py, lines 42-86): the     *)
(* tarball loop and the combined table.                                    *)
(***************************************************************************)
MaxCombMembers == 3

EndsWith(t, suf) == Len(t) >= Len(suf) /\ SubSeq(t, Len(t) - Len(suf) + 1, Len(t)) = suf

UpperChar(c) ==
    CASE c = "s" -> "S" [] c = "m" -> "M" [] c = "i" -> "I" [] c = "l" -> "L"
      [] c = "e" -> "E" [] c = "t" -> "T" [] c = "a" -> "A" [] c = "r" -> "R"
      [] c = "g" -> "G" [] c = "z" -> "Z" [] c = "v" -> "V" [] c = "x" -> "X"
      [] OTHER -> c

LowerChar(c) ==
    CASE c = "S" -> "s" [] c = "M" -> "m" [] c = "I" -> "i" [] c = "L" -> "l"
      [] c = "E" -> "e" [] c = "T" -> "t" [] c = "A" -> "a" [] c = "R" -> "r"
      [] c = "G" -> "g" [] c = "Z" -> "z" [] c = "V" -> "v" [] c = "X" -> "x"
      [] OTHER -> c

\* str.upper(), str.lower()
Upper(t) == [i \in 1..Len(t) |-> UpperChar(t[i])]
Lower(t) == [i \in 1..Len(t) |-> LowerChar(t[i])]

SmilesSuffix == <<".", "S", "M", "I", "L", "E", "S", ".", "T", "A", "R", ".", "G", "Z">>
TsvSuffix == <<".", "t", "s", "v">>

\* the entries the pharma_ligands index may list, in the order http_index_list
\* returns them (sorted)
IndexEntries ==
    << <<"L", "1">> \o SmilesSuffix,
       <<"L", "2", ".", "s", "m", "i", "l", "e", "s", ".", "t", "a", "r", ".", "g", "z">>,
       <<"R", ".", "t", "x", "t">> >>

SubLists(q) ==
    {SelectSeq(q, LAMBDA e : e \in S) : S \in SUBSET SeqToSet(q)}

IsSmilesTar(e) == EndsWith(Upper(e), SmilesSuffix)

\* the texts a .tsv member may hold
TsvTexts ==
    { <<>>,
      <<"h", "\t", "k", "\n">>,
      <<"h", "\t", "k", "\n", "b", "\t", "2">>,
      <<"h", "\t", "k", "\r", "\n", "\r", "\n", "h", "\t", "k", "\r", "\n">>,
      <<"h", "\r", "a">>,
      <<"g", "\n", "a", "\t", "\n">> }

MemberNames ==
    { <<"m", ".", "t", "s", "v">>, <<"d", "/", "n", ".", "T", "S", "V">>,
      <<"m", ".", "t", "x", "t">> }

CombMembers == [name : MemberNames, isfile : BOOLEAN, text : TsvTexts]

\* io.StringIO iteration: the text cut after every "\n"
RECURSIVE LinesOf(_)
LinesOf(t) ==
    IF t = <<>> THEN <<>>
    ELSE LET n == IndexOf(t, "\n", 1)
         IN IF n = 0 THEN <<t>>
            ELSE <<SubSeq(t, 1, n)>> \o LinesOf(SubSeq(t, n + 1, Len(t)))

\* str.split(sep)
RECURSIVE SplitOn(_, _)
SplitOn(t, sep) ==
    LET n == IndexOf(t, sep, 1)
    IN IF n = 0 THEN <<t>>
       ELSE <<SubSeq(t, 1, n - 1)>> \o SplitOn(SubSeq(t, n + 1, Len(t)), sep)

IsNewline(c) == c \in {"\r", "\n"}

\* csv.reader on one line, delimiter "\t", no quote characters in the text:
\* the fields before the line end; a character after a CR or LF is csv.Error
ParseLine(line) ==
    LET e == CHOOSE k \in 1..(Len(line) + 1) :
                 /\ k = Len(line) + 1 \/ IsNewline(line[k])
                 /\ \A j \in 1..(k - 1) : ~IsNewline(line[j])
        body == SubSeq(line, 1, e - 1)
    IN [err |-> \E j \in e..Len(line) : ~IsNewline(line[j]),
        row |-> IF body = <<>> THEN <<>> ELSE SplitOn(body, "\t")]

\* list(csv.reader(io.StringIO(text), delimiter="\t")): [err, rows]
ParseTsv(text) ==
    LET ls == LinesOf(text)
    IN [err |-> \E i \in 1..Len(ls) : ParseLine(ls[i]).err,
        rows |-> [i \in 1..Len(ls) |-> ParseLine(ls[i]).row]]

ReaderRestWithHeader(rows) == rows

\* what "for row in reader" yields after header = next(reader)
ReaderRest(rows) == Tail(rows)

\* tarname.split(".")[0]
TarLabel(tarname) == SplitOn(tarname, ".")[1]

RECURSIVE JoinWith(_, _)
JoinWith(fields, sep) ==
    IF fields = <<>> THEN <<>>
    ELSE IF Len(fields) = 1 THEN fields[1]
    ELSE fields[1] \o <<sep>> \o JoinWith(Tail(fields), sep)

\* csv.writer(f, delimiter="\t").writerow(row), no field needing quotes
WriteRow(row) == JoinWith(row, "\t") \o <<"\r", "\n">>

WriteRows(rows) == Concat([i \in 1..Len(rows) |-> WriteRow(rows[i])])

Supertarget == <<"s", "u", "p", "e", "r", "t", "a", "r", "g", "e", "t">>
SourceFile == <<"s", "o", "u", "r", "c", "e", "_", "f", "i", "l", "e">>

CombineInit ==
    /\ cpc = "start" /\ centries \in SubLists(IndexEntries) /\ ctars = <<>> /\ cnum = 0
    /\ combined_header = None /\ combined_rows = <<>> /\ out_tsv = None /\ cseen = <<>>
    /\ IndexIdle /\ NormIdle /\ ExtractIdle /\ RunIdle

\* lines 45-49: list the index, keep the SMILES tarballs, return if there are none
CombineList ==
    /\ cpc = "start"
    /\ ctars' = SelectSeq(centries, IsSmilesTar)
    /\ cpc' = IF ctars' = <<>> THEN "returned" ELSE "tar"
    /\ UNCHANGED <<centries, cnum, combined_header, combined_rows, out_tsv, cseen,
                   IndexVars, NormVars, ExtractVars, RunVars>>

\* http_index_list, download or tarfile.open raises: the stage ends, nothing written
CombineRaise ==
    /\ cpc \in {"start", "tar"}
    /\ cpc' = "raised"
    /\ UNCHANGED <<centries, ctars, cnum, combined_header, combined_rows, out_tsv, cseen,
                   IndexVars, NormVars, ExtractVars, RunVars>>

\* lines 57-67: the tarball is on disk (downloaded or already there) and is opened
CombineOpenTar ==
    /\ cpc = "tar"
    /\ cpc' = "members"
    /\ UNCHANGED <<centries, ctars, cnum, combined_header, combined_rows, out_tsv, cseen,
                   IndexVars, NormVars, ExtractVars, RunVars>>

\* line 69 is false: the member is no regular file or its name does not end in .tsv
CombineSkipMember(m) ==
    /\ cpc = "members" /\ cnum < MaxCombMembers
    /\ ~(m.isfile /\ EndsWith(Lower(m.name), TsvSuffix))
    /\ cnum' = cnum + 1
    /\ UNCHANGED <<cpc, centries, ctars, combined_header, combined_rows, out_tsv, cseen,
                   IndexVars, NormVars, ExtractVars, RunVars>>

\* lines 70-78: read one .tsv member
CombineMember(m) ==
    /\ cpc = "members" /\ cnum < MaxCombMembers
    /\ m.isfile /\ EndsWith(Lower(m.name), TsvSuffix)
    /\ cnum' = cnum + 1
    /\ LET parsed == ParseTsv(m.text)
           tarname == Head(ctars)
       IN IF parsed.rows = <<>>
          THEN \* next(reader) raises StopIteration
               /\ cpc' = "raised"
               /\ UNCHANGED <<combined_header, combined_rows, cseen>>
          ELSE /\ combined_header' =
                     IF combined_header = None
                     THEN Some(<<Supertarget, SourceFile>> \o parsed.rows[1])
                     ELSE combined_header
               /\ IF parsed.err
                  THEN \* csv.Error out of the reader
                       /\ cpc' = "raised"
                       /\ UNCHANGED <<combined_rows, cseen>>
                  ELSE /\ cpc' = cpc
                       /\ combined_rows' = combined_rows \o
                              [i \in 1..Len(ReaderRest(parsed.rows)) |->
                                  <<TarLabel(tarname), m.name>> \o ReaderRest(parsed.rows)[i]]
                       /\ cseen' = Append(cseen, <<tarname, m.name, m.text>>)
    /\ UNCHANGED <<centries, ctars, out_tsv, IndexVars, NormVars, ExtractVars, RunVars>>

\* the archive has no further member: next tarball, or line 80
CombineCloseTar ==
    /\ cpc = "members"
    /\ ctars' = Tail(ctars)
    /\ cpc' = IF ctars' = <<>> THEN "write" ELSE "tar"
    /\ UNCHANGED <<centries, cnum, combined_header, combined_rows, out_tsv, cseen,
                   IndexVars, NormVars, ExtractVars, RunVars>>

\* lines 80-86
CombineWrite ==
    /\ cpc = "write"
    /\ IF combined_header.set
       THEN /\ out_tsv' = Some(WriteRow(combined_header.val) \o WriteRows(combined_rows))
            /\ cpc' = "written"
       ELSE /\ cpc' = "returned"
            /\ UNCHANGED out_tsv
    /\ UNCHANGED <<centries, ctars, cnum, combined_header, combined_rows, cseen,
                   IndexVars, NormVars, ExtractVars, RunVars>>

CombineNext ==
    \/ CombineList
    \/ CombineRaise
    \/ CombineOpenTar
    \/ \E m \in CombMembers : CombineSkipMember(m) \/ CombineMember(m)
    \/ CombineCloseTar
    \/ CombineWrite

SpecCombine == CombineInit /\ [][CombineNext]_vars

\* the archive label of a tarball name: the text before its first "."
C5_Label(tarname) ==
    LET k == CHOOSE k \in 1..Len(tarname) :
                 tarname[k] = "." /\ \A j \in 1..(k - 1) : tarname[j] # "."
    IN SubSeq(tarname, 1, k - 1)

\* the lines the members read contribute: per member, in order, one line per row
\* after its header, prefixed with the archive label and the member path
RECURSIVE C5_DataLines(_)
C5_DataLines(seen) ==
    IF seen = <<>> THEN <<>>
    ELSE LET tarname == Head(seen)[1]
             member == Head(seen)[2]
             rows == ParseTsv(Head(seen)[3]).rows
         IN [i \in 1..(Len(rows) - 1) |->
                JoinWith(<<C5_Label(tarname), member>> \o rows[i + 1], "\t") \o <<"\r", "\n">>]
            \o C5_DataLines(Tail(seen))

\* C5: the combined table written has exactly one header line, the two provenance
\* column names followed by the header of the first .tsv member read, then one row
\* per non-header row of every .tsv member, in archive, member and row order, each
\* [archive label, member path] followed by the row's fields; no later member's
\* header is among the data rows.
C5_CombinedTable ==
    cpc = "written" =>
        /\ out_tsv.set /\ cseen # <<>>
        /\ out_tsv.val =
              JoinWith(<<Supertarget, SourceFile>> \o ParseTsv(cseen[1][3]).rows[1], "\t")
                  \o <<"\r", "\n">> \o Concat(C5_DataLines(cseen))
        /\ CountOf(out_tsv.val, "\n") = 1 + Len(C5_DataLines(cseen))

\* a table written from two members of two archives, the second member holding a
\* header and at least one row
C5_Witness ==
    /\ cpc = "written"
    /\ Len(cseen) >= 2
    /\ cseen[1][1] # cseen[2][1]
    /\ Len(ParseTsv(cseen[1][3]).rows) >= 2
    /\ Len(ParseTsv(cseen[2][3]).rows) >= 2

(***************************************************************************)
(* The two scripts as programs: main() of casp_ligand_fetch.py with its    *)
(* five stages and download(), and the module body of                      *)
(* casp_target_fetch.py up to the extraction.  A finished run (done,       *)
(* raised or killed) may be followed by another run of the same command    *)
(* line on the same disk.                                                  *)
(***************************************************************************)
NumIds == 2

\* the positions of the identifiers in CASP16_SUPERTARGETS, tids and targets
Ids == 1..NumIds

AllFlags ==
    [skip_casp16_smiles : BOOLEAN, skip_casp16_fastas : BOOLEAN,
     with_casp16_results : BOOLEAN, skip_casp15_fastas : BOOLEAN,
     with_casp15_predictions : BOOLEAN]

MainOrderFastasFirst == <<"fastas16", "smiles", "results", "fastas15", "predictions">>

\* the stage calls of main(), lines 192-202, in program order
MainOrder == <<"smiles", "fastas16", "results", "fastas15", "predictions">>

\* the if-conditions of lines 192, 194, 196, 199, 201
Selected(f, s) ==
    CASE s = "smiles" -> ~f.skip_casp16_smiles
      [] s = "fastas16" -> ~f.skip_casp16_fastas
      [] s = "results" -> f.with_casp16_results
      [] s = "fastas15" -> ~f.skip_casp15_fastas
      [] s = "predictions" -> f.with_casp15_predictions

File(dir, n) == [dir |-> dir, n |-> n]
SmilesTar == File("casp16/pharma_smiles", 1)
Combined == File("casp16/pharma_smiles", 0)
Fasta16(i) == File("casp16/fastas", i)
ResultCsv == File("casp16/results", 1)
Fasta15(i) == File("casp15/fastas", i)
PredTar == File("casp15/predictions", 1)
TargetCsv == File("casp15_original_inputs", 0)
TFasta(i) == File("casp15_original_inputs/fasta", i)
LigTar == File("casp15_original_inputs/ligands_tarball", 0)

Paths ==
    {SmilesTar, Combined, ResultCsv, PredTar, TargetCsv, LigTar}
    \cup {Fasta16(i) : i \in Ids} \cup {Fasta15(i) : i \in Ids} \cup {TFasta(i) : i \in Ids}

\* the file the index of a download stage lists (tars, keep, tars)
DlFile(s) ==
    CASE s = "smiles" -> SmilesTar [] s = "results" -> ResultCsv [] s = "predictions" -> PredTar

\* dest of a per-target loop
SeqFile(s, i) == IF s = "fastas16" THEN Fasta16(i) ELSE Fasta15(i)

ExistsOnlyComplete(st) == st = "complete"

\* Path.exists()
PathExists(st) == st # "absent"

NeverSkip(st) == FALSE

\* lines 60, 96, 123, 147, 173: the existence check that skips the fetch
SkipFetch(st) == PathExists(st)

\* whether the per-target loop of stage s wraps the fetch in try/except:
\* fetch_casp15_ligand_fastas does (lines 150, 159), fetch_casp16_sequences does not
Catches(s) == s = "fastas15"

DiskOpenedFirst(d, p) == [d EXCEPT ![p] = "partial"]

\* the disk when raise_for_status() raises in download(): line 34 is before line 35
DiskOnBadStatus(d, p) == d

LooksLikeFastaAlways(data) == TRUE

\* line 51: data.startswith(b">")
LooksLikeFasta(data) == StartsWith(data, <<">">>)

\* bodies the sequence endpoint may answer with
Bodies == {<<">", "T", "\n", "A">>, <<"A">>, <<>>, <<" ", ">">>}

BodyReq(p, d) == [kind |-> "body", path |-> p, existed |-> PathExists(d[p])]
ListReq(s) == [kind |-> "list", path |-> s, existed |-> FALSE]
Exc(s, what, p) == [set |-> TRUE, val |-> [stage |-> s, what |-> what, path |-> p]]
NoPath == File("", 0)

Cur == MainOrder[stage]

RunInit ==
    /\ script \in {"ligand", "target"}
    /\ flags \in IF script = "ligand" THEN AllFlags ELSE {<<>>}
    /\ pc = IF script = "ligand" THEN "main" ELSE "t_list"
    /\ stage = 1 /\ item = 0 /\ ret = "off"
    /\ disk = [p \in Paths |-> "absent"]
    /\ started = <<>> /\ finished = {} /\ handled = {} /\ failed = {}
    /\ reqs = {} /\ err = None /\ stale = {} /\ refused = {} /\ rerun = FALSE /\ tlog = <<>>
    /\ IndexIdle /\ NormIdle /\ ExtractIdle /\ CombineIdle

Others == <<IndexVars, NormVars, ExtractVars, CombineVars, script, flags, rerun, stale, refused>>

\* the stage function returns to main()
StageReturn ==
    /\ finished' = finished \cup {Cur}
    /\ pc' = "main"
    /\ stage' = stage + 1

\* an uncaught exception ends the run
Raise(what, p) ==
    /\ err' = Exc(IF script = "ligand" THEN Cur ELSE pc, what, p)
    /\ pc' = "raised"

(* main(), lines 192-204 *)
MainSkip ==
    /\ pc = "main" /\ stage <= Len(MainOrder)
    /\ ~Selected(flags, Cur)
    /\ stage' = stage + 1
    /\ UNCHANGED <<pc, item, ret, disk, started, finished, handled, failed, reqs, err, tlog,
                   Others>>

MainCall ==
    /\ pc = "main" /\ stage <= Len(MainOrder)
    /\ Selected(flags, Cur)
    /\ started' = Append(started, Cur)
    /\ pc' = CASE Cur \in {"smiles", "results", "predictions"} -> "index"
               [] Cur = "fastas16" -> "seq"
               [] Cur = "fastas15" -> "targetlist"
    /\ item' = 1 /\ handled' = {} /\ failed' = {}
    /\ UNCHANGED <<stage, ret, disk, finished, reqs, err, tlog, Others>>

MainDone ==
    /\ pc = "main" /\ stage > Len(MainOrder)
    /\ pc' = "done"
    /\ UNCHANGED <<stage, item, ret, disk, started, finished, handled, failed, reqs, err,
                   tlog, Others>>

(* http_index_list and the filter on its result, lines 45-49, 113-117, 166-169 *)
IndexListed ==
    /\ pc = "index"
    /\ reqs' = reqs \cup {ListReq(Cur)}
    /\ pc' = "dl_exists"
    /\ UNCHANGED <<stage, item, ret, disk, started, finished, handled, failed, err, tlog,
                   Others>>

\* no entry passes the filter: the stage returns (for predictions, after an empty loop)
IndexEmpty ==
    /\ pc = "index"
    /\ reqs' = reqs \cup {ListReq(Cur)}
    /\ StageReturn
    /\ UNCHANGED <<item, ret, disk, started, handled, failed, err, tlog, Others>>

IndexFails ==
    /\ pc = "index"
    /\ reqs' = reqs \cup {ListReq(Cur)}
    /\ Raise("index", NoPath)
    /\ UNCHANGED <<stage, item, ret, disk, started, finished, handled, failed, tlog, Others>>

\* after the file is on disk: read the tarball (smiles) or go on with the loop
AfterFile == IF Cur = "smiles" THEN "tar_open" ELSE "dl_next"

(* lines 60-64, 123-127, 173-177 *)
DlExists ==
    /\ pc = "dl_exists"
    /\ SkipFetch(disk[DlFile(Cur)])
    /\ pc' = AfterFile
    /\ UNCHANGED <<stage, item, ret, disk, started, finished, handled, failed, reqs, err,
                   tlog, Others>>

DlCall ==
    /\ pc = "dl_exists"
    /\ ~SkipFetch(disk[DlFile(Cur)])
    /\ pc' = "dl_get" /\ ret' = AfterFile
    /\ UNCHANGED <<stage, item, disk, started, finished, handled, failed, reqs, err, tlog,
                   Others>>

(* download(), lines 31-39 *)
\* line 33: S.get(url, stream=True)
DownloadGet ==
    /\ pc = "dl_get"
    /\ reqs' = reqs \cup {BodyReq(DlFile(Cur), disk)}
    /\ pc' = "dl_status"
    /\ UNCHANGED <<stage, item, ret, disk, started, finished, handled, failed, err, tlog,
                   Others>>

\* line 33 raises: no connection, timeout
DownloadGetFails ==
    /\ pc = "dl_get"
    /\ reqs' = reqs \cup {BodyReq(DlFile(Cur), disk)}
    /\ Raise("network", DlFile(Cur))
    /\ UNCHANGED <<stage, item, ret, disk, started, finished, handled, failed, tlog, Others>>

\* line 34: r.raise_for_status() raises on a non-success status
DownloadBadStatus ==
    /\ pc = "dl_status"
    /\ disk' = DiskOnBadStatus(disk, DlFile(Cur))
    /\ Raise("status", DlFile(Cur))
    /\ UNCHANGED <<stage, item, ret, started, finished, handled, failed, reqs, tlog, Others>>

\* line 35: open(dest, "wb") creates the empty file
DownloadOpen ==
    /\ pc = "dl_status"
    /\ disk' = [disk EXCEPT ![DlFile(Cur)] = "partial"]
    /\ pc' = "dl_write"
    /\ UNCHANGED <<stage, item, ret, started, finished, handled, failed, reqs, err, tlog,
                   Others>>

\* lines 36-39: every chunk written, the file closed, return dest
DownloadFinish ==
    /\ pc = "dl_write"
    /\ disk' = [disk EXCEPT ![DlFile(Cur)] = "complete"]
    /\ pc' = ret
    /\ UNCHANGED <<stage, item, ret, started, finished, handled, failed, reqs, err, tlog,
                   Others>>

\* line 36: iter_content raises, the connection broke mid-body
DownloadBreaks ==
    /\ pc = "dl_write"
    /\ Raise("stream", DlFile(Cur))
    /\ UNCHANGED <<stage, item, ret, disk, started, finished, handled, failed, reqs, tlog,
                   Others>>

\* the process is interrupted or killed while the file is being written
Interrupt ==
    /\ pc = "dl_write"
    /\ pc' = "killed"
    /\ UNCHANGED <<stage, item, ret, disk, started, finished, handled, failed, reqs, err,
                   tlog, Others>>

(* fetch_casp16_pharma_smiles, lines 66-86 *)
\* line 67-78: the archive is read to its end
TarRead ==
    /\ pc = "tar_open"
    /\ pc' = "dl_next"
    /\ UNCHANGED <<stage, item, ret, disk, started, finished, handled, failed, reqs, err,
                   tlog, Others>>

\* tarfile raises ReadError or EOFError on a truncated archive
TarReadFails ==
    /\ pc = "tar_open"
    /\ disk[SmilesTar] = "partial"
    /\ Raise("tarfile", SmilesTar)
    /\ UNCHANGED <<stage, item, ret, disk, started, finished, handled, failed, reqs, tlog,
                   Others>>

\* the loop over the listed files ends (one file is listed)
DlLoopEnd ==
    /\ pc = "dl_next"
    /\ IF Cur = "smiles"
       THEN pc' = "combine" /\ UNCHANGED <<stage, finished>>
       ELSE StageReturn
    /\ UNCHANGED <<item, ret, disk, started, handled, failed, reqs, err, tlog, Others>>

\* lines 80-86: combined_header is set, the combined table is written
CombinedWritten ==
    /\ pc = "combine"
    /\ disk' = [disk EXCEPT ![Combined] = "complete"]
    /\ StageReturn
    /\ UNCHANGED <<item, ret, started, handled, failed, reqs, err, tlog, Others>>

\* line 80 is false: the archives held no .tsv member
CombinedNotWritten ==
    /\ pc = "combine"
    /\ StageReturn
    /\ UNCHANGED <<item, ret, disk, started, handled, failed, reqs, err, tlog, Others>>

(* fetch_casp15_ligand_fastas, lines 133-143 *)
TargetListLoaded ==
    /\ pc = "targetlist"
    /\ reqs' = reqs \cup {ListReq(Cur)}
    /\ pc' = "seq"
    /\ UNCHANGED <<stage, item, ret, disk, started, finished, handled, failed, err, tlog,
                   Others>>

TargetListFails ==
    /\ pc = "targetlist"
    /\ reqs' = reqs \cup {ListReq(Cur)}
    /\ Raise("targetlist", NoPath)
    /\ UNCHANGED <<stage, item, ret, disk, started, finished, handled, failed, tlog, Others>>

(* the per-target loops, lines 93-107 and 144-160 *)
\* next identifier, or the end of the loop and of the stage
SeqAdvance ==
    IF item < NumIds
    THEN item' = item + 1 /\ UNCHANGED <<pc, stage, finished>>
    ELSE StageReturn /\ UNCHANGED item

\* lines 96-98, 147-149: dest exists, continue
SeqExists ==
    /\ pc = "seq"
    /\ SkipFetch(disk[SeqFile(Cur, item)])
    /\ handled' = handled \cup {item}
    /\ SeqAdvance
    /\ UNCHANGED <<ret, disk, started, failed, reqs, err, tlog, Others>>

\* lines 100-107, 152-158: the fetch succeeds, the normalized text is written
SeqFetched ==
    /\ pc = "seq"
    /\ ~SkipFetch(disk[SeqFile(Cur, item)])
    /\ handled' = handled \cup {item}
    /\ reqs' = reqs \cup {BodyReq(SeqFile(Cur, item), disk)}
    /\ disk' = [disk EXCEPT ![SeqFile(Cur, item)] = "complete"]
    /\ SeqAdvance
    /\ UNCHANGED <<ret, started, failed, err, tlog, Others>>

\* S.get or raise_for_status raises: caught and logged (lines 159-160), or not caught
SeqFetchFails ==
    /\ pc = "seq"
    /\ ~SkipFetch(disk[SeqFile(Cur, item)])
    /\ handled' = handled \cup {item}
    /\ failed' = failed \cup {item}
    /\ reqs' = reqs \cup {BodyReq(SeqFile(Cur, item), disk)}
    /\ IF Catches(Cur)
       THEN SeqAdvance /\ UNCHANGED err
       ELSE Raise("fetch", SeqFile(Cur, item)) /\ UNCHANGED <<stage, item, finished>>
    /\ UNCHANGED <<ret, disk, started, tlog, Others>>

(* casp_target_fetch.py, lines 22-81 *)
\* lines 23-40: the target list is fetched, saved and parsed
TListSaved ==
    /\ pc = "t_list"
    /\ reqs' = reqs \cup {BodyReq(TargetCsv, disk)}
    /\ disk' = [disk EXCEPT ![TargetCsv] = "complete"]
    /\ pc' = "t_fasta" /\ item' = 1
    /\ UNCHANGED <<stage, ret, started, finished, handled, failed, err, tlog, Others>>

TListFails ==
    /\ pc = "t_list"
    /\ reqs' = reqs \cup {BodyReq(TargetCsv, disk)}
    /\ Raise("fetch", TargetCsv)
    /\ UNCHANGED <<stage, item, ret, disk, started, finished, handled, failed, tlog, Others>>

TAdvance ==
    IF item < NumIds THEN item' = item + 1 /\ pc' = pc ELSE item' = item /\ pc' = "t_tarball"

\* lines 46-54 and 55-56: the fetch returns data; saved if it starts with ">",
\* else RuntimeError, caught and logged
TFastaFetched(data) ==
    /\ pc = "t_fasta"
    /\ handled' = handled \cup {item}
    /\ reqs' = reqs \cup {BodyReq(TFasta(item), disk)}
    /\ IF LooksLikeFasta(data)
       THEN /\ disk' = [disk EXCEPT ![TFasta(item)] = "complete"]
            /\ tlog' = Append(tlog, [i |-> item, ok |-> TRUE, data |-> data, saved |-> TRUE])
       ELSE /\ disk' = disk
            /\ tlog' = Append(tlog, [i |-> item, ok |-> TRUE, data |-> data, saved |-> FALSE])
    /\ TAdvance
    /\ UNCHANGED <<stage, ret, started, finished, failed, err, Others>>

\* lines 49, 55-56: fetch raises (URLError, HTTPError), caught and logged
TFastaFails ==
    /\ pc = "t_fasta"
    /\ handled' = handled \cup {item}
    /\ failed' = failed \cup {item}
    /\ reqs' = reqs \cup {BodyReq(TFasta(item), disk)}
    /\ tlog' = Append(tlog, [i |-> item, ok |-> FALSE, data |-> <<>>, saved |-> FALSE])
    /\ TAdvance
    /\ UNCHANGED <<stage, ret, disk, started, finished, err, Others>>

\* lines 62-65
TTarballSaved ==
    /\ pc = "t_tarball"
    /\ reqs' = reqs \cup {BodyReq(LigTar, disk)}
    /\ disk' = [disk EXCEPT ![LigTar] = "complete"]
    /\ pc' = "t_extract"
    /\ UNCHANGED <<stage, item, ret, started, finished, handled, failed, err, tlog, Others>>

TTarballFails ==
    /\ pc = "t_tarball"
    /\ reqs' = reqs \cup {BodyReq(LigTar, disk)}
    /\ Raise("fetch", LigTar)
    /\ UNCHANGED <<stage, item, ret, disk, started, finished, handled, failed, tlog, Others>>

\* lines 67-82: the extraction (its steps are those of SpecExtract) ends
TExtracted ==
    /\ pc = "t_extract"
    /\ pc' = "done"
    /\ UNCHANGED <<stage, item, ret, disk, started, finished, handled, failed, reqs, err,
                   tlog, Others>>

TExtractFails ==
    /\ pc = "t_extract"
    /\ Raise("tarfile", LigTar)
    /\ UNCHANGED <<stage, item, ret, disk, started, finished, handled, failed, reqs, tlog,
                   Others>>

\* the same command line is run again on the disk the last run left
RunAgain ==
    /\ pc \in {"done", "raised", "killed"}
    /\ pc' = IF script = "ligand" THEN "main" ELSE "t_list"
    /\ stage' = 1 /\ item' = 0 /\ ret' = "off"
    /\ started' = <<>> /\ finished' = {} /\ handled' = {} /\ failed' = {}
    /\ reqs' = {} /\ err' = None /\ tlog' = <<>>
    /\ stale' = {p \in Paths : disk[p] = "partial"}
    /\ refused' = IF err.set /\ err.val.what = "status" THEN {err.val.path} ELSE {}
    /\ rerun' = TRUE
    /\ UNCHANGED <<disk, script, flags, IndexVars, NormVars, ExtractVars, CombineVars>>

Next ==
    \/ MainSkip \/ MainCall \/ MainDone
    \/ IndexListed \/ IndexEmpty \/ IndexFails
    \/ DlExists \/ DlCall
    \/ DownloadGet \/ DownloadGetFails \/ DownloadBadStatus \/ DownloadOpen
    \/ DownloadFinish \/ DownloadBreaks \/ Interrupt
    \/ TarRead \/ TarReadFails \/ DlLoopEnd \/ CombinedWritten \/ CombinedNotWritten
    \/ TargetListLoaded \/ TargetListFails
    \/ SeqExists \/ SeqFetched \/ SeqFetchFails
    \/ TListSaved \/ TListFails
    \/ (\E data \in Bodies : TFastaFetched(data)) \/ TFastaFails
    \/ TTarballSaved \/ TTarballFails \/ TExtracted \/ TExtractFails
    \/ RunAgain

Spec == RunInit /\ [][Next]_vars

(***************************************************************************)
(* Properties of the runs                                                  *)
(***************************************************************************)
BodyReqsFor(p) == {r \in reqs : r.kind = "body" /\ r.path = p}
AllSelected == \A s \in SeqToSet(MainOrder) : Selected(flags, s)
LigandFiles ==
    {SmilesTar, ResultCsv, PredTar} \cup {Fasta16(i) : i \in Ids} \cup {Fasta15(i) : i \in Ids}

C2_FailureIsolated ==
    (pc \in {"main", "done", "raised", "killed", "t_tarball", "t_extract"} /\ failed # {})
        => handled = Ids

C7_FixedOrder == <<"smiles", "fastas16", "results", "fastas15", "predictions">>
C7_Pos(s) == CHOOSE i \in 1..Len(C7_FixedOrder) : C7_FixedOrder[i] = s
C7_Last == started[Len(started)]

\* C7: in every run of casp_ligand_fetch.py, for every combination of the flags, the
\* stages started are selected ones, started in the order CASP16 SMILES, CASP16
\* FASTAs, CASP16 results, CASP15 FASTAs, CASP15 predictions with no selected stage
\* passed over; every stage but the last started has finished; an uncaught error
\* belongs to the last stage started, which has not finished, so no stage was
\* started after it; a run that ends normally has started and finished exactly the
\* selected stages.
C7_StagesInOrder ==
    script = "ligand" =>
        /\ \A i \in DOMAIN started : Selected(flags, started[i])
        /\ \A i, j \in DOMAIN started : i < j => C7_Pos(started[i]) < C7_Pos(started[j])
        /\ \A i \in DOMAIN started : i < Len(started) => started[i] \in finished
        /\ \A s \in SeqToSet(C7_FixedOrder) :
              (started # <<>> /\ Selected(flags, s) /\ C7_Pos(s) < C7_Pos(C7_Last))
                  => s \in SeqToSet(started)
        /\ finished \subseteq SeqToSet(started)
        /\ err.set =>
              /\ started # <<>>
              /\ err.val.stage = C7_Last
              /\ C7_Last \notin finished
        /\ pc = "done" =>
              /\ SeqToSet(started) = {s \in SeqToSet(C7_FixedOrder) : Selected(flags, s)}
              /\ finished = SeqToSet(started)

\* all five stages selected, the third raises: the first two have finished, the
\* last two are never started
C7_Witness ==
    /\ script = "ligand" /\ AllSelected /\ pc = "raised"
    /\ started = <<"smiles", "fastas16", "results">>
    /\ finished = {"smiles", "fastas16"}
    /\ err.set /\ err.val.stage = "results"

\* C8 (as stated): for every file that was partly written when this run of
\* casp_ligand_fetch.py began, the file stays as it is, download() is not invoked
\* for its path, and the run raises no error for it.
C8_PartialSilentlyKept ==
    script = "ligand" =>
        \A p \in stale :
            /\ disk[p] = "partial"
            /\ BodyReqsFor(p) = {}
            /\ ~(err.set /\ err.val.path = p)

\* C8 (amended): for every file that was partly written when this run of
\* casp_ligand_fetch.py began, the file stays as it is and download() is not invoked
\* for its path; the run raises no error for a results CSV or a predictions
\* tarball, and the only error it can raise for a pharma SMILES tarball is the
\* one of reading the truncated archive.
C8_PartialKept ==
    script = "ligand" =>
        \A p \in stale :
            /\ disk[p] = "partial"
            /\ BodyReqsFor(p) = {}
            /\ (err.set /\ err.val.path = p) => (p = SmilesTar /\ err.val.what = "tarfile")

\* a later run finds the partly written results CSV listed and its existence
\* check has just skipped it
C8_Witness ==
    /\ script = "ligand" /\ rerun
    /\ pc = "dl_next" /\ Cur = "results"
    /\ ResultCsv \in stale /\ disk[ResultCsv] = "partial"
    /\ BodyReqsFor(ResultCsv) = {} /\ ~err.set

\* C9: when download() fails on a non-success status the destination file is
\* absent; a file the previous run's download() refused in this way is absent
\* until this run requests it, and when this run's loop is past that file (the
\* index still lists it) the existence check did not skip it: it was requested
\* and downloaded.
C9_BadStatusLeavesNoFile ==
    script = "ligand" =>
        /\ (err.set /\ err.val.what = "status") => disk[err.val.path] = "absent"
        /\ \A p \in refused :
              /\ BodyReqsFor(p) = {} => disk[p] = "absent"
              /\ \A r \in BodyReqsFor(p) : ~r.existed
              /\ (pc \in {"tar_open", "dl_next"} /\ DlFile(Cur) = p)
                    => (BodyReqsFor(p) # {} /\ disk[p] = "complete")

\* a run after a refused download requests the file again and is refused again
C9_Witness ==
    /\ script = "ligand" /\ rerun /\ refused = {PredTar}
    /\ BodyReqsFor(PredTar) # {}
    /\ err.set /\ err.val.what = "status" /\ err.val.path = PredTar
    /\ disk[PredTar] = "absent"

C10_Good(e) == e.ok /\ e.data # <<>> /\ Head(e.data) = ">"

\* C10: in every run of casp_target_fetch.py the FASTA loop handles the targets in
\* list order; the file of a target is written in this run iff its fetch succeeded
\* and the body starts with '>' (in a first run it is otherwise absent); the loop
\* raises no error, and whenever the run is past the loop every target has been
\* handled and the tarball is requested before the extraction.
C10_FastaWrittenIffValid ==
    script = "target" =>
        /\ Len(tlog) <= NumIds
        /\ \A k \in DOMAIN tlog :
              /\ tlog[k].i = k
              /\ tlog[k].saved <=> C10_Good(tlog[k])
              /\ tlog[k].saved => disk[TFasta(k)] = "complete"
              /\ (~tlog[k].saved /\ ~rerun) => disk[TFasta(k)] = "absent"
        /\ err.set => err.val.stage # "t_fasta"
        /\ (pc \in {"t_tarball", "t_extract", "done"}
             \/ (err.set /\ err.val.stage \in {"t_tarball", "t_extract"}))
              => Len(tlog) = NumIds
        /\ pc \in {"t_extract", "done"} => BodyReqsFor(LigTar) # {}

\* a first run in which one body starts with '>' and another does not: only the
\* first is written, and the tarball is downloaded
C10_Witness ==
    /\ script = "target" /\ ~rerun /\ pc = "done"
    /\ \E k \in DOMAIN tlog : tlog[k].saved
    /\ \E k \in DOMAIN tlog :
          tlog[k].ok /\ ~tlog[k].saved /\ disk[TFasta(k)] = "absent"
    /\ disk[LigTar] = "complete"

====
